---- MODULE Spec2Model ----
(***************************************************************************)
(* Model of src/main.rs: the winit ApplicationHandler `App` (window and    *)
(* lifecycle host) and the wgpu `State` (surface, configuration, frame     *)
(* acquire / record / submit / present).                                   *)
(*                                                                         *)
(* Option<T> values are sequences of length 0 (None) or 1 (Some(x)).       *)
(* Scale factors are held in percent (100 is the f64 1.0).                 *)
(***************************************************************************)
EXTENDS Integers, Sequences, FiniteSets, TLC

\* ------------------------------------------------------------------ bounds
\* number of windows the platform lets `resumed` create in one run
MaxWindows == 2
\* number of frames the surface hands out in one run
MaxFrames == 2

\* ------------------------------------------------------- program constants
DefaultLogicalWidth == 1280
DefaultLogicalHeight == 720
DesiredMaximumFrameLatency == 2

\* longest format list the selection is run on
MaxFormats == 3

\* ------------------------------------------------------------- input sets
\* physical dimensions a Resized event may carry (0: minimised window)
Dims == {0, 640, 1280}
\* scale factors of the monitors a window may be created on, in percent
ScaleFactors == {100, 150}
\* a window id that never belongs to the host's window
ForeignWindowId == MaxWindows + 1
\* format lists Surface::get_capabilities may report (driver order)
FormatLists ==
    { <<"Bgra8UnormSrgb", "Bgra8Unorm">>,
      <<"Bgra8Unorm", "Bgra8UnormSrgb", "Rgba8UnormSrgb">>,
      <<"Rgba16Float", "Bgra8Unorm">> }
AlphaModeLists == { <<"Opaque", "PreMultiplied">> }
\* errors Surface::get_current_texture may return on a configured surface
SurfaceErrors == {"Timeout", "Outdated", "Lost", "OutOfMemory", "Other"}

None == <<>>
Some(x) == <<x>>
IsSome(o) == Len(o) = 1
Unwrap(o) == o[1]

\* ------------------------------------------------------------------ sizes
LogicalSize(w, h) == [kind |-> "Logical", width |-> w, height |-> h]
PhysicalSize(w, h) == [kind |-> "Physical", width |-> w, height |-> h]

\* f64 multiplication by the scale factor followed by round()
ScaleRound(x, scale) == (x * scale + 50) \div 100

\* winit::dpi::Size::to_physical
to_physical(size, scale) ==
    IF size.kind = "Physical"
    THEN PhysicalSize(size.width, size.height)
    ELSE PhysicalSize(ScaleRound(size.width, scale), ScaleRound(size.height, scale))

\* ----------------------------------------------------------------- events
CloseRequested ==
    [type |-> "CloseRequested", key |-> "-", state |-> "-", repeat |-> FALSE,
     width |-> 0, height |-> 0]
KeyboardInput(k, s, r) ==
    [type |-> "KeyboardInput", key |-> k, state |-> s, repeat |-> r,
     width |-> 0, height |-> 0]
Resized(w, h) ==
    [type |-> "Resized", key |-> "-", state |-> "-", repeat |-> FALSE,
     width |-> w, height |-> h]
RedrawRequested ==
    [type |-> "RedrawRequested", key |-> "-", state |-> "-", repeat |-> FALSE,
     width |-> 0, height |-> 0]
\* any WindowEvent the match leaves to the `_` arm
Focused ==
    [type |-> "Focused", key |-> "-", state |-> "-", repeat |-> FALSE,
     width |-> 0, height |-> 0]
NoEvent ==
    [type |-> "-", key |-> "-", state |-> "-", repeat |-> FALSE,
     width |-> 0, height |-> 0]

KeyEvents ==
    { KeyboardInput("Escape", s, r) : s \in {"Pressed", "Released"}, r \in BOOLEAN }
    \cup { KeyboardInput("KeyA", "Pressed", FALSE) }
\* Resized events: every zero-area shape and two sizes with width # height
ResizeEvents ==
    { Resized(w, h) : w \in Dims, h \in Dims } \ { Resized(d, d) : d \in Dims \ {0} }
\* events the platform sends for windows of other hosts
ForeignEvents ==
    { CloseRequested, RedrawRequested, Focused, Resized(640, 1280),
      KeyboardInput("Escape", "Pressed", FALSE) }

VARIABLES
    window,            \* App.window: Option of [id, scale_factor]
    state,             \* App.state: Option of [surface, config, size]
    app_size,          \* App.size
    inner_size,        \* Window::inner_size() of the host's window
    lifecycle,         \* what the platform last told the host
    exiting,           \* ActiveEventLoop::exit() has been called
    redraw_requested,  \* Window::request_redraw() is pending
    pc,                \* position inside State::render, or "idle"/"panicked"
    output,            \* the SurfaceTexture held by State::render
    next_frame,        \* frames the surface has handed out
    queue,             \* frame ids whose commands were submitted
    presented,         \* frame ids presented, in order
    windows_created,   \* windows created so far
    last_reconfigure,  \* size of the last State::resize call on the current
                       \* State that passed the zero check (Option)
    format_runs,       \* a reported format list and the formats selected
                       \* from it, one per run of the selection
    tick               \* what the handler now running (or last run) did

vars == <<window, state, app_size, inner_size, lifecycle, exiting,
          redraw_requested, pc, output, next_frame, queue, presented,
          windows_created, last_reconfigure, format_runs, tick>>

NewTick(h, ev, wid) ==
    [handler |-> h, event |-> ev, window_id |-> wid, input_called |-> FALSE,
     outcome |-> "-", configure_calls |-> <<>>, passes |-> 0, submits |-> 0,
     presents |-> 0, exit_called |-> FALSE]

\* impl Default for App
Init ==
    /\ window = None
    /\ state = None
    /\ app_size = LogicalSize(DefaultLogicalWidth, DefaultLogicalHeight)
    /\ inner_size = PhysicalSize(0, 0)
    /\ lifecycle = "Uninitialized"
    /\ exiting = FALSE
    /\ redraw_requested = FALSE
    /\ pc = "idle"
    /\ output = None
    /\ next_frame = 0
    /\ queue = <<>>
    /\ presented = <<>>
    /\ windows_created = 0
    /\ last_reconfigure = None
    /\ format_runs = [formats |-> <<>>, chosen |-> <<>>]
    /\ tick = NewTick("-", NoEvent, 0)

Terminal == exiting \/ pc = "panicked"
Idle == pc = "idle" /\ ~exiting

\* ------------------------------------------------------------ State::new
\* wgpu::TextureFormat::is_srgb
is_srgb(f) == f \in {"Bgra8UnormSrgb", "Rgba8UnormSrgb"}

\* variant of the selection (fault): .last() in place of .next()
SelectFormat_LastSrgb(formats) ==
    LET srgb == { i \in 1..Len(formats) : is_srgb(formats[i]) }
    IN  IF srgb = {}
        THEN formats[1]
        ELSE formats[CHOOSE i \in srgb : \A j \in srgb : i >= j]

\* formats.iter().copied().filter(|s| s.is_srgb()).next().unwrap_or(formats[0])
SelectFormat(formats) ==
    LET srgb == { i \in 1..Len(formats) : is_srgb(formats[i]) }
    IN  IF srgb = {}
        THEN formats[1]
        ELSE formats[CHOOSE i \in srgb : \A j \in srgb : i <= j]

\* the wgpu::SurfaceConfiguration literal of State::new
NewConfig(size, formats, alpha_modes) ==
    [width |-> size.width,
     height |-> size.height,
     present_mode |-> "Fifo",
     alpha_mode |-> alpha_modes[1],
     format |-> SelectFormat(formats),
     desired_maximum_frame_latency |-> DesiredMaximumFrameLatency]

\* State::new: the surface is created for the window; surface.config is what
\* Surface::configure last applied (None: never configured)
StateNew(win, size, formats, alpha_modes) ==
    [surface |-> [window |-> win.id, config |-> None],
     config |-> NewConfig(size, formats, alpha_modes),
     size |-> PhysicalSize(size.width, size.height)]

\* --------------------------------------- variants of State::resize (faults)
\* the zero check written with && : only a 0x0 size returns early
resize_BothZero(st, size) ==
    IF size.width <= 0 /\ size.height <= 0
    THEN [state |-> st, configure_calls |-> <<>>, applied |-> None]
    ELSE LET cfg == [st.config EXCEPT !.width = size.width,
                                      !.height = size.height]
         IN  [state |-> [st EXCEPT !.size = PhysicalSize(size.width, size.height),
                                   !.config = cfg,
                                   !.surface.config = Some(cfg)],
              configure_calls |-> <<cfg>>,
              applied |-> Some(PhysicalSize(size.width, size.height))]

\* config.width and config.height assigned crosswise
resize_Swapped(st, size) ==
    IF size.width <= 0 \/ size.height <= 0
    THEN [state |-> st, configure_calls |-> <<>>, applied |-> None]
    ELSE LET cfg == [st.config EXCEPT !.width = size.height,
                                      !.height = size.width]
         IN  [state |-> [st EXCEPT !.size = PhysicalSize(size.width, size.height),
                                   !.config = cfg,
                                   !.surface.config = Some(cfg)],
              configure_calls |-> <<cfg>>,
              applied |-> Some(PhysicalSize(size.width, size.height))]

\* the assignment to config.height left out
resize_WidthOnly(st, size) ==
    IF size.width <= 0 \/ size.height <= 0
    THEN [state |-> st, configure_calls |-> <<>>, applied |-> None]
    ELSE LET cfg == [st.config EXCEPT !.width = size.width]
         IN  [state |-> [st EXCEPT !.size = PhysicalSize(size.width, size.height),
                                   !.config = cfg,
                                   !.surface.config = Some(cfg)],
              configure_calls |-> <<cfg>>,
              applied |-> Some(PhysicalSize(size.width, size.height))]

\* the assignment self.size = size.into() left out
resize_SizeNotCached(st, size) ==
    IF size.width <= 0 \/ size.height <= 0
    THEN [state |-> st, configure_calls |-> <<>>, applied |-> None]
    ELSE LET cfg == [st.config EXCEPT !.width = size.width,
                                      !.height = size.height]
         IN  [state |-> [st EXCEPT !.config = cfg,
                                   !.surface.config = Some(cfg)],
              configure_calls |-> <<cfg>>,
              applied |-> Some(PhysicalSize(size.width, size.height))]

\* --------------------------------------------------------- State::resize
\* returns the new State and the Surface::configure calls made
resize(st, size) ==
    IF size.width <= 0 \/ size.height <= 0
    THEN [state |-> st, configure_calls |-> <<>>, applied |-> None]
    ELSE LET cfg == [st.config EXCEPT !.width = size.width,
                                      !.height = size.height]
         IN  [state |-> [st EXCEPT !.size = PhysicalSize(size.width, size.height),
                                   !.config = cfg,
                                   !.surface.config = Some(cfg)],
              configure_calls |-> <<cfg>>,
              applied |-> Some(PhysicalSize(size.width, size.height))]

\* State::input
input(ev) == FALSE

\* State::update
update(st) == st

\* variant of the match (fault): the CloseRequested pattern left out
Arm_NoClose(ev) ==
    IF /\ ev.type = "KeyboardInput"
       /\ ev.state = "Pressed"
       /\ ev.key = "Escape"
    THEN "exit"
    ELSE IF ev.type = "Resized" THEN "resize"
    ELSE IF ev.type = "RedrawRequested" THEN "redraw"
    ELSE "ignore"

\* the arms of `match event` in App::window_event
Arm(ev) ==
    IF \/ ev.type = "CloseRequested"
       \/ /\ ev.type = "KeyboardInput"
          /\ ev.state = "Pressed"
          /\ ev.key = "Escape"
    THEN "exit"
    ELSE IF ev.type = "Resized" THEN "resize"
    ELSE IF ev.type = "RedrawRequested" THEN "redraw"
    ELSE "ignore"

\* variant of the early return (fault): `if !state.input(..) { return; }`
Dispatch_Inverted(ev) == IF ~input(ev) THEN "handled" ELSE Arm(ev)

\* the early return on state.input(..) and then the match
Dispatch(ev) == IF input(ev) THEN "handled" ELSE Arm(ev)

\* variants of the Err arms (faults)
\* the Lost arm left out: Lost falls to the logging arm
RenderError_LostLogged(st, err) ==
    IF err = "OutOfMemory"
    THEN [state |-> st, configure_calls |-> <<>>, applied |-> None,
          exit |-> TRUE]
    ELSE [state |-> st, configure_calls |-> <<>>, applied |-> None,
          exit |-> FALSE]

\* the OutOfMemory arm left out: OutOfMemory falls to the logging arm
RenderError_OomLogged(st, err) ==
    IF err = "Lost"
    THEN LET r == resize(st, to_physical(st.size, 100))
         IN  [state |-> r.state, configure_calls |-> r.configure_calls,
              applied |-> r.applied, exit |-> FALSE]
    ELSE [state |-> st, configure_calls |-> <<>>, applied |-> None,
          exit |-> FALSE]

\* the Lost arm written as Lost | Outdated
RenderError_OutdatedResizes(st, err) ==
    IF err \in {"Lost", "Outdated"}
    THEN LET r == resize(st, to_physical(st.size, 100))
         IN  [state |-> r.state, configure_calls |-> r.configure_calls,
              applied |-> r.applied, exit |-> FALSE]
    ELSE IF err = "OutOfMemory"
    THEN [state |-> st, configure_calls |-> <<>>, applied |-> None,
          exit |-> TRUE]
    ELSE [state |-> st, configure_calls |-> <<>>, applied |-> None,
          exit |-> FALSE]

\* the Err arms of `match state.render()`
RenderError(st, err) ==
    IF err = "Lost"
    THEN LET r == resize(st, to_physical(st.size, 100))
         IN  [state |-> r.state, configure_calls |-> r.configure_calls,
              applied |-> r.applied, exit |-> FALSE]
    ELSE IF err = "OutOfMemory"
    THEN [state |-> st, configure_calls |-> <<>>, applied |-> None,
          exit |-> TRUE]
    ELSE [state |-> st, configure_calls |-> <<>>, applied |-> None,
          exit |-> FALSE]

\* ------------------------------------------------------------ App::resumed
\* variants of resumed (faults)
\* State::new(window) started but not awaited: self.state is not assigned
\* when resumed returns
resumed_NotAwaited ==
    /\ Idle
    /\ lifecycle \in {"Uninitialized", "Suspended"}
    /\ windows_created < MaxWindows
    /\ \E scale \in ScaleFactors :
        /\ window' = Some([id |-> windows_created + 1, scale_factor |-> scale])
        /\ inner_size' = to_physical(app_size, scale)
    /\ windows_created' = windows_created + 1
    /\ lifecycle' = "Active"
    /\ redraw_requested' = FALSE
    /\ tick' = NewTick("resumed", NoEvent, 0)
    /\ UNCHANGED <<state, app_size, exiting, pc, output, next_frame, queue,
                   presented, last_reconfigure,
                   format_runs>>

\* self.state assigned only when it is None: a later resumed keeps the State
\* built for the previous window
resumed_KeepsOldState ==
    /\ Idle
    /\ lifecycle \in {"Uninitialized", "Suspended"}
    /\ windows_created < MaxWindows
    /\ \E scale \in ScaleFactors, formats \in FormatLists,
          alpha_modes \in AlphaModeLists :
        LET win == [id |-> windows_created + 1, scale_factor |-> scale]
            size == to_physical(app_size, scale)
        IN  /\ window' = Some(win)
            /\ inner_size' = size
            /\ state' = IF IsSome(state) THEN state
                        ELSE Some(StateNew(win, size, formats, alpha_modes))
            /\ last_reconfigure' =
                   IF IsSome(state) THEN last_reconfigure ELSE None
    /\ windows_created' = windows_created + 1
    /\ lifecycle' = "Active"
    /\ redraw_requested' = FALSE
    /\ tick' = NewTick("resumed", NoEvent, 0)
    /\ UNCHANGED <<app_size, exiting, pc, output, next_frame, queue,
                   presented,
                   format_runs>>

\* window creation, then State::new(window).block_on(): both fields are
\* assigned before resumed returns
resumed ==
    /\ Idle
    /\ lifecycle \in {"Uninitialized", "Suspended"}
    /\ windows_created < MaxWindows
    /\ \E scale \in ScaleFactors, formats \in FormatLists,
          alpha_modes \in AlphaModeLists :
        LET win == [id |-> windows_created + 1, scale_factor |-> scale]
            size == to_physical(app_size, scale)
        IN  /\ window' = Some(win)
            /\ inner_size' = size
            /\ state' = Some(StateNew(win, size, formats, alpha_modes))
    /\ windows_created' = windows_created + 1
    /\ lifecycle' = "Active"
    /\ last_reconfigure' = None
    /\ redraw_requested' = FALSE
    /\ tick' = NewTick("resumed", NoEvent, 0)
    /\ UNCHANGED <<app_size, exiting, pc, output, next_frame, queue,
                   presented,
                   format_runs>>

\* the .expect(..) calls of resumed and State::new: no window, no surface,
\* no adapter or no device. The panic leaves run_app and ends the process: no
\* handler runs again, so what resumed had assigned so far is never read.
resumed_panics ==
    /\ Idle
    /\ lifecycle \in {"Uninitialized", "Suspended"}
    /\ windows_created < MaxWindows
    /\ pc' = "panicked"
    /\ tick' = NewTick("resumed", NoEvent, 0)
    /\ UNCHANGED <<window, state, app_size, inner_size, lifecycle, exiting,
                   redraw_requested, output, next_frame, queue, presented,
                   windows_created, last_reconfigure, format_runs>>

\* ApplicationHandler::suspended is not overridden: the default does nothing
suspended ==
    /\ Idle
    /\ lifecycle = "Active"
    /\ lifecycle' = "Suspended"
    /\ tick' = NewTick("suspended", NoEvent, 0)
    /\ UNCHANGED <<window, state, app_size, inner_size, exiting,
                   redraw_requested, pc, output, next_frame, queue, presented,
                   windows_created,
                   last_reconfigure,
                   format_runs>>

\* variant of about_to_wait (fault): the request_redraw() call left out
about_to_wait_NoRequest ==
    /\ Idle
    /\ lifecycle # "Uninitialized"
    /\ tick' = NewTick("about_to_wait", NoEvent, 0)
    /\ IF IsSome(window)
       THEN pc' = pc
       ELSE pc' = "panicked"
    /\ UNCHANGED <<window, state, app_size, inner_size, lifecycle, exiting,
                   redraw_requested, output, next_frame, queue, presented,
                   windows_created, last_reconfigure, format_runs>>

\* App::about_to_wait. The event loop calls resumed right after
\* new_events(StartCause::Init), before the first about_to_wait.
about_to_wait ==
    /\ Idle
    /\ lifecycle # "Uninitialized"
    /\ tick' = NewTick("about_to_wait", NoEvent, 0)
    /\ IF IsSome(window)
       THEN /\ redraw_requested' = TRUE
            /\ pc' = pc
       ELSE /\ pc' = "panicked"
            /\ redraw_requested' = redraw_requested
    /\ UNCHANGED <<window, state, app_size, inner_size, lifecycle, exiting,
                   output, next_frame, queue, presented, windows_created,
                   last_reconfigure,
                   format_runs>>

\* ------------------------------------------------------- App::window_event
OwnId == Unwrap(window).id

\* entry of window_event for an event of the host's window: the id check
\* passes and state.input(event.clone()) is called
OwnTick(ev) ==
    [NewTick("window_event", ev, OwnId) EXCEPT !.input_called = TRUE]

\* variant of window_event (fault): the window id check left out, so a
\* close request or Escape press of another window reaches the exit arm
WindowEventForeign_NoIdCheck ==
    /\ Idle
    /\ IsSome(window)
    /\ \E ev \in ForeignEvents :
        /\ tick' = [NewTick("window_event", ev, ForeignWindowId) EXCEPT
                       !.input_called = TRUE,
                       !.exit_called = (Dispatch(ev) = "exit")]
        /\ exiting' = (Dispatch(ev) = "exit")
    /\ UNCHANGED <<window, state, app_size, inner_size, lifecycle,
                   redraw_requested, pc, output, next_frame, queue, presented,
                   windows_created, last_reconfigure, format_runs>>

\* window_id != self.window.id(): return
WindowEventForeign ==
    /\ Idle
    /\ IsSome(window)
    /\ \E ev \in ForeignEvents :
        tick' = NewTick("window_event", ev, ForeignWindowId)
    /\ UNCHANGED <<window, state, app_size, inner_size, lifecycle, exiting,
                   redraw_requested, pc, output, next_frame, queue, presented,
                   windows_created,
                   last_reconfigure,
                   format_runs>>

\* CloseRequested | KeyboardInput{Pressed, Escape, ..} => event_loop.exit()
WindowEventExit ==
    /\ Idle
    /\ IsSome(window)
    /\ \E ev \in {CloseRequested} \cup KeyEvents :
        /\ Dispatch(ev) = "exit"
        /\ tick' = [OwnTick(ev) EXCEPT !.exit_called = TRUE]
    /\ exiting' = TRUE
    /\ UNCHANGED <<window, state, app_size, inner_size, lifecycle,
                   redraw_requested, pc, output, next_frame, queue, presented,
                   windows_created,
                   last_reconfigure,
                   format_runs>>

\* Resized(inner_size) => state.resize(inner_size); the platform reports the
\* size the window now has
WindowEventResized ==
    /\ Idle
    /\ IsSome(window)
    /\ \E ev \in ResizeEvents :
        /\ Dispatch(ev) = "resize"
        /\ LET r == resize(Unwrap(state), PhysicalSize(ev.width, ev.height))
           IN  /\ state' = Some(r.state)
               /\ last_reconfigure' =
                      IF IsSome(r.applied) THEN r.applied ELSE last_reconfigure
               /\ tick' = [OwnTick(ev) EXCEPT
                              !.configure_calls = r.configure_calls]
        /\ inner_size' = PhysicalSize(ev.width, ev.height)
    /\ UNCHANGED <<window, app_size, lifecycle, exiting, redraw_requested,
                   pc, output, next_frame, queue, presented, windows_created,
                   format_runs>>

\* the `_ => {}` arm, and the early return when state.input(..) is true
WindowEventOther ==
    /\ Idle
    /\ IsSome(window)
    /\ \E ev \in {CloseRequested, RedrawRequested, Focused}
                 \cup KeyEvents \cup ResizeEvents :
        /\ Dispatch(ev) \in {"ignore", "handled"}
        /\ tick' = OwnTick(ev)
    /\ UNCHANGED <<window, state, app_size, inner_size, lifecycle, exiting,
                   redraw_requested, pc, output, next_frame, queue, presented,
                   windows_created,
                   last_reconfigure,
                   format_runs>>

\* ---------------------------------------------------------- State::render
\* outcomes of surface.get_current_texture() on a configured surface
AcquireOutcomes ==
    (IF next_frame < MaxFrames THEN {"Ok"} ELSE {}) \cup SurfaceErrors

\* RedrawRequested on a surface that was never configured: wgpu panics in
\* get_current_texture ("Surface is not configured")
RedrawNotConfigured ==
    /\ Idle
    /\ IsSome(window)
    /\ Dispatch(RedrawRequested) = "redraw"
    /\ ~IsSome(update(Unwrap(state)).surface.config)
    /\ pc' = "panicked"
    /\ redraw_requested' = FALSE
    /\ tick' = [OwnTick(RedrawRequested) EXCEPT !.outcome = "NotConfigured"]
    /\ UNCHANGED <<window, state, app_size, inner_size, lifecycle, exiting,
                   output, next_frame, queue, presented, windows_created,
                   last_reconfigure,
                   format_runs>>

\* RedrawRequested, get_current_texture() returns Ok(output): render goes on
RedrawAcquire ==
    /\ Idle
    /\ IsSome(window)
    /\ Dispatch(RedrawRequested) = "redraw"
    /\ LET st == update(Unwrap(state))
       IN  /\ IsSome(st.surface.config)
           /\ "Ok" \in AcquireOutcomes
           /\ output' = Some([id |-> next_frame + 1,
                              width |-> Unwrap(st.surface.config).width,
                              height |-> Unwrap(st.surface.config).height])
           /\ state' = Some(st)
    /\ next_frame' = next_frame + 1
    /\ pc' = "acquired"
    /\ redraw_requested' = FALSE
    /\ tick' = [OwnTick(RedrawRequested) EXCEPT !.outcome = "Ok"]
    /\ UNCHANGED <<window, app_size, inner_size, lifecycle, exiting, queue,
                   presented, windows_created,
                   last_reconfigure,
                   format_runs>>

\* RedrawRequested, get_current_texture() returns Err(e): `?` returns it and
\* the Err arms of window_event run
RedrawError ==
    /\ Idle
    /\ IsSome(window)
    /\ Dispatch(RedrawRequested) = "redraw"
    /\ IsSome(update(Unwrap(state)).surface.config)
    /\ \E err \in AcquireOutcomes \ {"Ok"} :
        LET r == RenderError(update(Unwrap(state)), err)
        IN  /\ state' = Some(r.state)
            /\ exiting' = r.exit
            /\ last_reconfigure' =
                   IF IsSome(r.applied) THEN r.applied ELSE last_reconfigure
            /\ tick' = [OwnTick(RedrawRequested) EXCEPT
                           !.outcome = err,
                           !.configure_calls = r.configure_calls,
                           !.exit_called = r.exit]
    /\ redraw_requested' = FALSE
    /\ UNCHANGED <<window, app_size, inner_size, lifecycle, pc, output,
                   next_frame, queue, presented, windows_created,
                   format_runs>>

\* create_view, create_command_encoder, begin_render_pass (Clear, Store)
RenderRecord ==
    /\ pc = "acquired"
    /\ pc' = "recorded"
    /\ tick' = [tick EXCEPT !.passes = @ + 1]
    /\ UNCHANGED <<window, state, app_size, inner_size, lifecycle, exiting,
                   redraw_requested, output, next_frame, queue, presented,
                   windows_created,
                   last_reconfigure,
                   format_runs>>

\* self.queue.submit(std::iter::once(encoder.finish()))
RenderSubmit ==
    /\ pc = "recorded"
    /\ pc' = "submitted"
    /\ queue' = Append(queue, Unwrap(output).id)
    /\ tick' = [tick EXCEPT !.submits = @ + 1]
    /\ UNCHANGED <<window, state, app_size, inner_size, lifecycle, exiting,
                   redraw_requested, output, next_frame, presented,
                   windows_created,
                   last_reconfigure,
                   format_runs>>

\* variant of the end of render (fault): output dropped without present()
RenderPresent_Dropped ==
    /\ pc = "submitted"
    /\ pc' = "idle"
    /\ output' = None
    /\ UNCHANGED <<window, state, app_size, inner_size, lifecycle, exiting,
                   redraw_requested, next_frame, queue, presented,
                   windows_created, last_reconfigure, tick,
                   format_runs>>

\* variant of the end of render (fault): render returns before present()
\* and keeps the SurfaceTexture
RenderPresent_Retained ==
    /\ pc = "submitted"
    /\ pc' = "idle"
    /\ UNCHANGED <<window, state, app_size, inner_size, lifecycle, exiting,
                   redraw_requested, output, next_frame, queue, presented,
                   windows_created, last_reconfigure, format_runs, tick>>

\* output.present(); Ok(()) => println!("RENDER"); the handler returns
RenderPresent ==
    /\ pc = "submitted"
    /\ pc' = "idle"
    /\ presented' = Append(presented, Unwrap(output).id)
    /\ output' = None
    /\ tick' = [tick EXCEPT !.presents = @ + 1]
    /\ UNCHANGED <<window, state, app_size, inner_size, lifecycle, exiting,
                   redraw_requested, next_frame, queue, windows_created,
                   last_reconfigure,
                   format_runs>>

Next ==
    \/ resumed
    \/ resumed_panics
    \/ suspended
    \/ about_to_wait
    \/ WindowEventForeign
    \/ WindowEventExit
    \/ WindowEventResized
    \/ WindowEventOther
    \/ RedrawNotConfigured
    \/ RedrawAcquire
    \/ RedrawError
    \/ RenderRecord
    \/ RenderSubmit
    \/ RenderPresent

Spec == Init /\ [][Next]_vars

\* ------------------------------------------------------------ scheduling
\* the platform delivers a RedrawRequested event for a pending request
RedrawDelivered ==
    /\ redraw_requested
    /\ (RedrawNotConfigured \/ RedrawAcquire \/ RedrawError)

\* the first resumed follows new_events(StartCause::Init)
FirstResumed ==
    /\ lifecycle = "Uninitialized"
    /\ (resumed \/ resumed_panics)

\* ControlFlow::Poll: the loop never blocks, so about_to_wait ends every
\* iteration; a requested redraw is delivered; State::render runs to its end
LiveSpec ==
    /\ Init /\ [][Next]_vars
    /\ WF_vars(FirstResumed)
    /\ WF_vars(about_to_wait)
    /\ WF_vars(RedrawDelivered)
    /\ WF_vars(RenderRecord)
    /\ WF_vars(RenderSubmit)
    /\ WF_vars(RenderPresent)

\* ------------------------------------------------- format selection alone
\* the selection of State::new run, twice, on every non-empty format list of
\* up to MaxFormats entries
Formats == {"Bgra8UnormSrgb", "Rgba8UnormSrgb", "Bgra8Unorm", "Rgba16Float"}
FormatInputs == UNION { [1..n -> Formats] : n \in 1..MaxFormats }

FormatInit ==
    /\ window = None
    /\ state = None
    /\ app_size = LogicalSize(DefaultLogicalWidth, DefaultLogicalHeight)
    /\ inner_size = PhysicalSize(0, 0)
    /\ lifecycle = "Uninitialized"
    /\ exiting = FALSE
    /\ redraw_requested = FALSE
    /\ pc = "idle"
    /\ output = None
    /\ next_frame = 0
    /\ queue = <<>>
    /\ presented = <<>>
    /\ windows_created = 0
    /\ last_reconfigure = None
    /\ tick = NewTick("-", NoEvent, 0)
    /\ \E f \in FormatInputs : format_runs = [formats |-> f, chosen |-> <<>>]

SelectFormatRun ==
    /\ Len(format_runs.chosen) < 2
    /\ format_runs' = [format_runs EXCEPT
                          !.chosen = Append(@, SelectFormat(format_runs.formats))]
    /\ UNCHANGED <<window, state, app_size, inner_size, lifecycle, exiting,
                   redraw_requested, pc, output, next_frame, queue, presented,
                   windows_created, last_reconfigure, tick>>

FormatSpec == FormatInit /\ [][SelectFormatRun]_vars

TypeOK ==
    /\ Len(window) <= 1
    /\ Len(state) <= 1
    /\ IsSome(state) => IsSome(window)
    /\ lifecycle \in {"Uninitialized", "Active", "Suspended"}
    /\ exiting \in BOOLEAN
    /\ redraw_requested \in BOOLEAN
    /\ pc \in {"idle", "acquired", "recorded", "submitted", "panicked"}
    /\ next_frame \in 0..MaxFrames
    /\ windows_created \in 0..MaxWindows

\* ======================================================================
\* Properties
\* ======================================================================
\* the handler that ran last was window_event for the host's own window
OwnEvent(type) == tick.handler = "window_event" /\ tick.input_called
                  /\ tick.event.type = type
InRender == pc \in {"acquired", "recorded", "submitted"}
Count(seq, x) == Cardinality({ i \in 1..Len(seq) : seq[i] = x })
Positive(size) == size.width > 0 /\ size.height > 0
SameDims(a, b) == a.width = b.width /\ a.height = b.height

\* C1: a keyboard event for physical key Escape on the host's window requests
\* exit if and only if the key state is Pressed and repeat is false (a
\* repeated press and a release do not request exit).
C1_EscapeExitsOnlyOnFirstPress ==
    (OwnEvent("KeyboardInput") /\ tick.event.key = "Escape")
        => (exiting <=> (tick.event.state = "Pressed" /\ ~tick.event.repeat))

\* C2: whenever a State exists, its surface has been configured with the
\* State's current configuration (so every acquisition, the first one on a
\* fresh State included, follows a configure call with the current size).
C2_SurfaceConfiguredOnceCreated ==
    IsSome(state) =>
        Unwrap(state).surface.config = Some(Unwrap(state).config)

\* C3: a redraw tick whose acquisition fails with Lost calls resize with the
\* cached size in the same tick: one configure call carrying the unchanged
\* configuration, cached size and configuration unchanged, nothing submitted
\* or presented, no exit requested; a redraw tick that follows it and
\* acquires a frame gets one of the cached size, and every tick that acquired
\* a frame has submitted and presented it once when it returns.
C3_LostReconfiguresSameTick ==
    /\ [][ (tick'.outcome = "Lost") =>
             /\ pc' = "idle" /\ ~exiting' /\ ~tick'.exit_called
             /\ tick'.configure_calls = <<Unwrap(state).config>>
             /\ Unwrap(state').config = Unwrap(state).config
             /\ Unwrap(state').size = Unwrap(state).size
             /\ Unwrap(state').surface.config = Some(Unwrap(state).config)
             /\ queue' = queue /\ presented' = presented /\ output' = None
             /\ tick'.submits = 0 /\ tick'.presents = 0 ]_vars
    /\ [][ (tick.outcome = "Lost" /\ tick'.outcome = "Ok" /\ pc = "idle") =>
             /\ pc' = "acquired"
             /\ SameDims(Unwrap(output'), Unwrap(state).size) ]_vars
    /\ [](tick.outcome = "Ok" /\ pc = "idle" =>
             tick.passes = 1 /\ tick.submits = 1 /\ tick.presents = 1)

C3_Witness ==
    /\ OwnEvent("RedrawRequested") /\ tick.outcome = "Lost"
    /\ Len(tick.configure_calls) = 1
    /\ next_frame > 0
    /\ ~exiting /\ pc = "idle"

\* C4: after a redraw tick with any acquisition outcome (Ok, Lost,
\* OutOfMemory, Timeout, Outdated, Other) exit is requested if and only if the
\* outcome was OutOfMemory; with any other outcome the host has not panicked
\* and stays in the lifecycle state it was in.
C4_ExitIffOutOfMemory ==
    /\ [](OwnEvent("RedrawRequested") /\ tick.outcome \in {"Ok"} \cup SurfaceErrors
            => /\ exiting <=> tick.outcome = "OutOfMemory"
               /\ tick.exit_called <=> tick.outcome = "OutOfMemory"
               /\ pc # "panicked")
    /\ [][ tick'.outcome \in {"Ok"} \cup SurfaceErrors =>
              lifecycle' = lifecycle ]_vars

C4_Witness ==
    OwnEvent("RedrawRequested") /\ tick.outcome = "OutOfMemory" /\ exiting

\* C5: a redraw tick whose acquisition fails with Timeout, Outdated or another
\* error that is neither Lost nor OutOfMemory skips the frame: nothing is
\* submitted or presented, State (cached size, configuration, applied surface
\* configuration) is unchanged, no configure call is made, exit is not
\* requested, and the handler returns with the surface still configured, so
\* the next redraw tick acquires again.
C5_OtherErrorsSkipFrame ==
    [][ tick'.outcome \in {"Timeout", "Outdated", "Other"} =>
          /\ state' = state
          /\ queue' = queue /\ presented' = presented
          /\ output' = None /\ next_frame' = next_frame
          /\ tick'.configure_calls = <<>>
          /\ tick'.submits = 0 /\ tick'.presents = 0
          /\ ~exiting' /\ pc' = "idle"
          /\ IsSome(Unwrap(state').surface.config) ]_vars

C5_Witness ==
    /\ OwnEvent("RedrawRequested") /\ tick.outcome = "Outdated"
    /\ pc = "idle" /\ ~exiting

\* C6: a Resized event of the host's window with width = 0 or height = 0
\* leaves State exactly as it was (cached size, every field of the
\* configuration, the configuration applied to the surface) and makes no
\* configure call.
C6_ZeroResizeIsNoOp ==
    [][ ( /\ tick'.handler = "window_event" /\ tick'.input_called
          /\ tick'.event.type = "Resized"
          /\ (tick'.event.width = 0 \/ tick'.event.height = 0) )
        => /\ state' = state
           /\ tick'.configure_calls = <<>>
           /\ last_reconfigure' = last_reconfigure ]_vars

C6_Witness ==
    /\ OwnEvent("Resized") /\ tick.event.width = 0 /\ tick.event.height > 0
    /\ IsSome(Unwrap(state).surface.config)

\* C7: every acquired frame has exactly the width and height of the most
\* recent State::resize call with a positive size, and these are the
\* dimensions of the configuration applied to the surface.
C7_FrameHasReconfiguredSize ==
    InRender =>
        /\ IsSome(output) /\ IsSome(last_reconfigure)
        /\ SameDims(Unwrap(output), Unwrap(last_reconfigure))
        /\ SameDims(Unwrap(output), Unwrap(Unwrap(state).surface.config))

C7_Witness ==
    /\ pc = "acquired"
    /\ Unwrap(output).width = 640 /\ Unwrap(output).height = 1280

\* C8 as stated: whenever a State exists, the configuration's (width, height)
\* equals the window's current physical size.
C8_ConfigEqualsWindowSize ==
    IsSome(state) => SameDims(Unwrap(state).config, inner_size)

\* C8 amended: whenever a State exists and the window's physical size has
\* both dimensions positive, the configuration's (width, height) equals it.
C8_ConfigEqualsPositiveWindowSize ==
    (IsSome(state) /\ Positive(inner_size))
        => SameDims(Unwrap(state).config, inner_size)

C8_Witness ==
    /\ OwnEvent("Resized") /\ Positive(tick.event)
    /\ inner_size = PhysicalSize(1280, 640)
    /\ SameDims(Unwrap(state).config, inner_size)

\* C9: every acquired frame is consumed exactly once, in the order acquire,
\* one render pass, submit, present: no frame is submitted or presented
\* twice, a frame is presented only after its commands were submitted, and
\* when no handler is running no frame is held and every frame handed out
\* has been submitted once and presented once.
C9_FrameConsumedExactlyOnce ==
    /\ \A f \in 1..next_frame : Count(presented, f) <= 1 /\ Count(queue, f) <= 1
    /\ \A i \in 1..Len(presented) : Count(queue, presented[i]) = 1
    /\ InRender <=> IsSome(output)
    /\ pc = "acquired" =>
          /\ tick.passes = 0 /\ tick.submits = 0 /\ tick.presents = 0
          /\ Count(queue, Unwrap(output).id) = 0
    /\ pc = "recorded" =>
          /\ tick.passes = 1 /\ tick.submits = 0 /\ tick.presents = 0
          /\ Count(queue, Unwrap(output).id) = 0
    /\ pc = "submitted" =>
          /\ tick.passes = 1 /\ tick.submits = 1 /\ tick.presents = 0
          /\ Count(queue, Unwrap(output).id) = 1
          /\ Count(presented, Unwrap(output).id) = 0
    /\ ~InRender =>
          \A f \in 1..next_frame :
              Count(presented, f) = 1 /\ Count(queue, f) = 1

C9_Witness ==
    /\ pc = "idle" /\ tick.outcome = "Ok" /\ tick.presents = 1
    /\ next_frame = 2 /\ presented = <<1, 2>>

\* C10: a CloseRequested event of the host's window requests exit whether
\* the host is Active or Suspended.
C10_CloseRequestsExit ==
    (OwnEvent("CloseRequested") /\ lifecycle \in {"Active", "Suspended"})
        => exiting /\ tick.exit_called

C10_Witness ==
    OwnEvent("CloseRequested") /\ lifecycle = "Suspended" /\ exiting

\* C11: window creation and State construction are complete before any
\* other handler runs: between handlers the window is never present without
\* its State, and whenever window_event or about_to_wait runs both the window
\* and the State are present, so neither unwrap() meets None.
C11_ConstructedBeforeHandlers ==
    /\ IsSome(window) => IsSome(state)
    /\ IsSome(state) => IsSome(window)
    /\ tick.handler \in {"window_event", "about_to_wait"}
          => IsSome(window) /\ IsSome(state)
    /\ pc = "panicked"
          => tick.handler = "resumed" \/ tick.outcome = "NotConfigured"

C11_Witness ==
    /\ tick.handler = "about_to_wait" /\ redraw_requested
    /\ windows_created = 1 /\ IsSome(state) /\ pc = "idle"

\* C12 as stated: while the host is Suspended it holds no State (device,
\* queue, surface): the State was torn down when rendering was revoked.
C12_NoContextWhileSuspended ==
    lifecycle = "Suspended" => ~IsSome(state)

\* C13: for every non-empty format list the selection returns the first
\* element, in reported order, that is sRGB, or the element at index 0 when
\* no element is sRGB; a second run on the same list returns the same format.
FirstSrgbElseFirst(formats, f) ==
    \E i \in 1..Len(formats) :
        /\ formats[i] = f
        /\ \/ /\ is_srgb(formats[i])
              /\ \A j \in 1..(i - 1) : ~is_srgb(formats[j])
           \/ /\ i = 1
              /\ \A j \in 1..Len(formats) : ~is_srgb(formats[j])

C13_FormatSelection ==
    /\ \A i \in 1..Len(format_runs.chosen) :
          FirstSrgbElseFirst(format_runs.formats, format_runs.chosen[i])
    /\ \A i, j \in 1..Len(format_runs.chosen) :
          format_runs.chosen[i] = format_runs.chosen[j]

C13_Witness ==
    /\ format_runs.formats = <<"Bgra8Unorm", "Rgba8UnormSrgb", "Bgra8UnormSrgb">>
    /\ format_runs.chosen = <<"Rgba8UnormSrgb", "Rgba8UnormSrgb">>

\* C14: every about_to_wait leaves a redraw requested, whatever the previous
\* frame's outcome was; and as long as the host has neither requested exit
\* nor panicked, a redraw tick is handled again and again.
C14_RedrawKeepsBeingRequested ==
    /\ [][ tick'.handler = "about_to_wait" /\ pc' # "panicked"
             => redraw_requested' ]_vars
    /\ []<>(exiting \/ pc = "panicked" \/ OwnEvent("RedrawRequested"))

C14_Witness ==
    /\ tick.handler = "about_to_wait" /\ redraw_requested
    /\ next_frame > 0 /\ presented # <<>>

\* C15 as stated: after a Resized event of the host's window with positive
\* width and height, App.size, State.size and the configuration's (width,
\* height) all equal the new physical size and the surface was configured
\* with it.
C15_AllSizesFollowResize ==
    (OwnEvent("Resized") /\ Positive(tick.event)) =>
        /\ SameDims(to_physical(app_size, Unwrap(window).scale_factor),
                    tick.event)
        /\ SameDims(Unwrap(state).size, tick.event)
        /\ SameDims(Unwrap(state).config, tick.event)
        /\ Unwrap(state).surface.config = Some(Unwrap(state).config)

\* C16: for every event of the host's window the input hook is called, and
\* default handling runs exactly when the hook returns false: a handled event
\* requests no exit, configures nothing and acquires nothing; an unhandled
\* close request exits, an unhandled positive resize configures the surface
\* and an unhandled redraw request reaches the acquisition.
OwnWindowEvent ==
    /\ tick.handler = "window_event"
    /\ IsSome(window) /\ tick.window_id = OwnId

C16_HookBeforeDefaultHandling ==
    OwnWindowEvent =>
        /\ tick.input_called
        /\ IF input(tick.event)
           THEN /\ ~tick.exit_called
                /\ tick.configure_calls = <<>>
                /\ tick.outcome = "-"
           ELSE /\ tick.event.type = "CloseRequested" => tick.exit_called
                /\ (tick.event.type = "Resized" /\ Positive(tick.event))
                      => Len(tick.configure_calls) = 1
                /\ tick.event.type = "RedrawRequested" => tick.outcome # "-"

C16_Witness ==
    /\ OwnWindowEvent /\ tick.input_called
    /\ tick.event = Resized(1280, 640)
    /\ Len(tick.configure_calls) = 1

\* C17: whenever exit has been requested no frame is in flight: render is
\* not under way, no SurfaceTexture is held, and every frame handed out has
\* been submitted and presented.
C17_ExitOnlyBetweenFrames ==
    exiting =>
        /\ ~InRender /\ output = None
        /\ \A f \in 1..next_frame :
              Count(queue, f) = 1 /\ Count(presented, f) = 1

C17_Witness ==
    /\ exiting /\ tick.outcome = "OutOfMemory"
    /\ next_frame > 0 /\ Len(presented) = next_frame

\* C18: whenever a State exists its cached size is a physical size equal to
\* the configuration's (width, height); only resumed (State::new) and a
\* Resized event with a positive size change either of them, so render and
\* the Lost recovery leave both as they were.
C18_CachedSizeEqualsConfig ==
    /\ [](IsSome(state) =>
             /\ Unwrap(state).size.kind = "Physical"
             /\ SameDims(Unwrap(state).size, Unwrap(state).config))
    /\ [][ ( /\ IsSome(state) /\ IsSome(state')
             /\ \/ Unwrap(state').size # Unwrap(state).size
                \/ Unwrap(state').config # Unwrap(state).config )
           => \/ tick'.handler = "resumed"
              \/ /\ tick'.handler = "window_event"
                 /\ tick'.event.type = "Resized"
                 /\ Positive(tick'.event) ]_vars

C18_Witness ==
    /\ tick.outcome = "Lost" /\ IsSome(last_reconfigure)
    /\ Unwrap(state).size = PhysicalSize(640, 1280)
    /\ Unwrap(state).config.width = 640 /\ Unwrap(state).config.height = 1280

\* C19: after any number of resumed callbacks, window and
\* State are both absent or both present, at most one of each is held, and
\* the State's surface was created from the window now held (the one created
\* last).
C19_OneWindowOneContext ==
    /\ IsSome(window) <=> IsSome(state)
    /\ Len(window) <= 1 /\ Len(state) <= 1
    /\ IsSome(window) <=> windows_created > 0
    /\ IsSome(state) =>
          /\ Unwrap(state).surface.window = Unwrap(window).id
          /\ Unwrap(window).id = windows_created

C19_Witness ==
    /\ tick.handler = "resumed" /\ pc = "idle"
    /\ windows_created = 2
    /\ Unwrap(window).id = 2 /\ Unwrap(state).surface.window = 2

\* C20: a window event whose window id is not the id of the host's window is
\* ignored: the input hook is not called, exit is not requested, and the
\* State (cached size, configuration, surface), the frame state and the
\* pending redraw request are unchanged.
C20_ForeignEventIgnored ==
    [][ ( /\ tick'.handler = "window_event"
          /\ IsSome(window)
          /\ tick'.window_id # OwnId )
        => /\ ~tick'.input_called /\ ~tick'.exit_called
           /\ tick'.configure_calls = <<>> /\ tick'.outcome = "-"
           /\ UNCHANGED <<window, state, app_size, inner_size, lifecycle,
                          exiting, redraw_requested, pc, output, next_frame,
                          queue, presented, last_reconfigure>> ]_vars

C20_Witness ==
    /\ tick.handler = "window_event" /\ tick.window_id = ForeignWindowId
    /\ tick.event = CloseRequested
    /\ ~exiting /\ IsSome(state)

====
